---- MODULE Spec2Model ----
(***************************************************************************)
(* Model of src/src/matrix.cpp: template <class val_t> class Matrix.       *)
(*                                                                         *)
(* val_t is instantiated at an exact integer type.  The free store is      *)
(* modelled block by block, so that sharing, leaks and double releases     *)
(* are observable: a Matrix object holds _data (the address of a block of  *)
(* row pointers), each row pointer is the address of a block of elements.  *)
(* Every member function is one action; its loops are the RECURSIVE        *)
(* operators below, run in the order the code runs them.                   *)
(***************************************************************************)
EXTENDS Integers, Sequences, FiniteSets, TLC

VARIABLES mats, mem, rng, last, ret, made, aborted, steps

vars == <<mats, mem, rng, last, ret, made, aborted, steps>>

(* ------------------------------ bounds --------------------------------- *)

\* Largest height / width handed to Matrix(height, width, random), and largest
\* row / column index handed to get and set (matrices built from a 2D sequence
\* have the sequence's shape, up to 3 x 2).
MaxDim == 1
\* Largest seed handed to Matrix(height, width, random); 0 means "no seed".
MaxSeed == 2
\* Largest value handed to set(y, x, dat).
MaxVal == 1
\* Number of member-function calls in one run.
MaxSteps == 3
\* Largest value rand() returns (the model's generator has RAND_MAX + 1 states).
RAND_MAX == 3

(* --------------------------- the free store ---------------------------- *)

\* The Matrix objects of the program (two named objects).
Slots == {"A", "B"}

NULL == 0

\* The content of storage that new / new[] returned and nobody wrote yet.
Indeterminate == -77

\* new T (arr = FALSE) or new T[Len(cells)] (arr = TRUE): the lowest free address.
NewBlock(m, arr, cells) ==
    LET p == CHOOSE q \in 1..(Cardinality(DOMAIN m.blocks) + 1) :
                 /\ q \notin DOMAIN m.blocks
                 /\ \A r \in 1..(q - 1) : r \in DOMAIN m.blocks
    IN [mem |-> [m EXCEPT !.blocks = m.blocks @@ (p :> [arr |-> arr, cells |-> cells])],
        ptr |-> p]

\* delete[] p.  Releasing an address that is not allocated is recorded in badFree.
DeleteArr(m, p) ==
    IF p \in DOMAIN m.blocks
    THEN [m EXCEPT !.blocks = [q \in (DOMAIN m.blocks) \ {p} |-> m.blocks[q]]]
    ELSE [m EXCEPT !.badFree = TRUE]

\* p[i] for a block p (i counted from 0); storage that is gone reads as anything.
Cell(m, p, i) ==
    IF p \in DOMAIN m.blocks /\ i + 1 \in 1..Len(m.blocks[p].cells)
    THEN m.blocks[p].cells[i + 1]
    ELSE Indeterminate

\* p[i] = v
Store(m, p, i, v) ==
    IF p \in DOMAIN m.blocks /\ i + 1 \in 1..Len(m.blocks[p].cells)
    THEN [m EXCEPT !.blocks[p].cells[i + 1] = v]
    ELSE m

RECURSIVE AllocRows(_, _, _, _, _)
\* for (i = 0; i < h; ++i) ret[i] = new val_t[w];
AllocRows(m, rows, i, h, w) ==
    IF i >= h THEN m
    ELSE LET nb == NewBlock(m, TRUE, [j \in 1..w |-> Indeterminate])
         IN AllocRows(Store(nb.mem, rows, i, nb.ptr), rows, i + 1, h, w)

\* allocDims(h, w)
allocDims(m, h, w) ==
    LET nb == NewBlock(m, TRUE, [i \in 1..h |-> NULL])
    IN [mem |-> AllocRows(nb.mem, nb.ptr, 0, h, w), ptr |-> nb.ptr]

(* ------------------------------ rand ----------------------------------- *)

\* std::srand(seed): the generator's state becomes a function of the seed alone.
Srand(seed) == seed % (RAND_MAX + 1)

\* std::rand(): advances the process-wide generator; the new state is the value.
RandNext(g) == (g + 1) % (RAND_MAX + 1)

\* ((val_t)std::rand() / RAND_MAX * 2 - 1) for an integer val_t.
RandomValue(r) == (r \div RAND_MAX) * 2 - 1

(* --------------------------- Matrix objects ---------------------------- *)

Dead == [alive |-> FALSE, _data |-> NULL, _height |-> 0, _width |-> 0]

\* get(y, x): _data[y][x]
get(m, o, y, x) == Cell(m, Cell(m, o._data, y), x)

\* set(y, x, dat): _data[y][x] = dat
set(m, o, y, x, dat) == Store(m, Cell(m, o._data, y), x, dat)

RECURSIVE FillLoop(_, _, _, _, _)
\* Matrix(height, width, random), lines 87-92: k runs over (i, j) in row-major order.
FillLoop(st, o, random, k, n) ==
    IF k >= n THEN st
    ELSE LET i == k \div o._width
             j == k % o._width
         IN IF random # 0
            THEN LET g == RandNext(st.rng)
                 IN FillLoop([mem |-> set(st.mem, o, i, j, RandomValue(g)), rng |-> g],
                             o, random, k + 1, n)
            ELSE FillLoop([mem |-> set(st.mem, o, i, j, 0), rng |-> st.rng],
                          o, random, k + 1, n)

\* Variant of ShapeCtor: std::srand(random) is not called.
ShapeCtorNoSrand(m, g, height, width, random) ==
    LET al == allocDims(m, height, width)
        o  == [alive |-> TRUE, _data |-> al.ptr, _height |-> height, _width |-> width]
        st == FillLoop([mem |-> al.mem, rng |-> g], o, random, 0, height * width)
    IN [mem |-> st.mem, rng |-> st.rng, obj |-> o]

\* Matrix(const dim_t height, const dim_t width, const int random = 0)
ShapeCtor(m, g, height, width, random) ==
    LET g1 == IF random # 0 THEN Srand(random) ELSE g
        al == allocDims(m, height, width)
        o  == [alive |-> TRUE, _data |-> al.ptr, _height |-> height, _width |-> width]
        st == FillLoop([mem |-> al.mem, rng |-> g1], o, random, 0, height * width)
    IN [mem |-> st.mem, rng |-> st.rng, obj |-> o]

\* Matrix(): new val_t *, *_data = new val_t, _height = _width = 0, _id = rand()
DefaultCtor(m, g) ==
    LET outer == NewBlock(m, FALSE, <<NULL>>)
        inner == NewBlock(outer.mem, FALSE, <<Indeterminate>>)
    IN [mem |-> Store(inner.mem, outer.ptr, 0, inner.ptr),
        rng |-> RandNext(g),
        obj |-> [alive |-> TRUE, _data |-> outer.ptr, _height |-> 0, _width |-> 0]]

RECURSIVE DeleteRows(_, _, _)
\* for (i = 0; i < _height; ++i) delete[] _data[i];
DeleteRows(m, o, i) ==
    IF i >= o._height THEN m
    ELSE DeleteRows(DeleteArr(m, Cell(m, o._data, i)), o, i + 1)

\* ~Matrix()
Destructor(m, o) ==
    IF o._data = NULL THEN m
    ELSE DeleteArr(DeleteRows(m, o, 0), o._data)

\* delete[] of a block that new (not new[]) returned is undefined: the block is
\* released, or the run is stopped by the allocator.
Mismatched(m, o) ==
    o._data \in DOMAIN m.blocks /\ ~m.blocks[o._data].arr

DeleteOutcomes(m, o) == IF Mismatched(m, o) THEN {"released", "abort"} ELSE {"released"}

(* --------------------------- abstract value ---------------------------- *)

\* The matrix an object denotes: its shape and its elements through get().
Val(m, o) ==
    [h |-> o._height, w |-> o._width,
     d |-> [i \in 1..o._height |-> [j \in 1..o._width |-> get(m, o, i - 1, j - 1)]]]

NoRet == [kind |-> "none"]

\* How an object came to be (bookkeeping of the run, read by no member function).
\* written: set, -= or *= changed it since; assigned: operator= replaced it since.
Origin(how, h, w, seed, src) ==
    [how |-> how, h |-> h, w |-> w, seed |-> seed, src |-> src,
     written |-> FALSE, assigned |-> FALSE]

NotMade == Origin("none", 0, 0, 0, "A")

(* ------------------------- member functions ---------------------------- *)

RECURSIVE CopyLoop(_, _, _, _, _)
\* Matrix(const Matrix &src), lines 119-121: set(i, j, src.get(i, j))
CopyLoop(m, o, src, k, n) ==
    IF k >= n THEN m
    ELSE LET i == k \div o._width
             j == k % o._width
         IN CopyLoop(set(m, o, i, j, get(m, src, i, j)), o, src, k + 1, n)

\* Variant of CopyCtor: the copy takes over src's _data (a member-wise copy).
CopyCtorShallow(m, g, src) == [mem |-> m, rng |-> g, obj |-> src]

\* Matrix(const Matrix &src) : Matrix(src.height(), src.width())
CopyCtor(m, g, src) ==
    LET r == ShapeCtor(m, g, src._height, src._width, 0)
    IN [mem |-> CopyLoop(r.mem, r.obj, src, 0, r.obj._height * r.obj._width),
        rng |-> r.rng, obj |-> r.obj]

RECURSIVE RowLoop(_, _, _, _, _)
\* lines 108-109: for (j = 0; j < _width; ++j) set(i, j, src[i][j]);
RowLoop(m, o, row, i, j) ==
    IF j >= o._width THEN m
    ELSE RowLoop(set(m, o, i, j, row[j + 1]), o, row, i, j + 1)

RECURSIVE RowsLoop(_, _, _, _)
\* lines 102-110: the shape of row i is checked right before row i is copied.
RowsLoop(m, o, src, i) ==
    IF i >= o._height THEN [mem |-> m, err |-> FALSE]
    ELSE IF Len(src[i + 1]) # o._width THEN [mem |-> m, err |-> TRUE]
    ELSE RowsLoop(RowLoop(m, o, src[i + 1], i, 0), o, src, i + 1)

\* Matrix(const std::vector<std::vector<val_t>> &src) : Matrix(src.size(), src[0].size())
\* for a src that has a row 0.  A throw from the body of a delegating constructor
\* runs the destructor of the object the target constructor completed.
RowsCtor(m, g, src, width) ==
    LET r  == ShapeCtor(m, g, Len(src), width, 0)
        lp == RowsLoop(r.mem, r.obj, src, 0)
    IN IF lp.err
       THEN [mem |-> Destructor(lp.mem, r.obj), rng |-> r.rng, obj |-> Dead, err |-> TRUE]
       ELSE [mem |-> lp.mem, rng |-> r.rng, obj |-> r.obj, err |-> FALSE]

\* src[0].size() of a src without rows reads past the vector: the read yields
\* whatever lies there (any size), or it faults (NoRowZero).
FirstRowSizes(src) == IF Len(src) = 0 THEN 0..MaxDim ELSE {Len(src[1])}

NoRowZero(src) == Len(src) = 0

RECURSIVE AssignLoop(_, _, _, _, _)
\* operator=, lines 143-145: _data[i][j] = o.get(i, j)
AssignLoop(m, this, o, k, n) ==
    IF k >= n THEN m
    ELSE LET i == k \div o._width
             j == k % o._width
         IN AssignLoop(Store(m, Cell(m, this._data, i), j, get(m, o, i, j)), this, o, k + 1, n)

\* Variant of OperatorAssign: without the test this == &o.
OperatorAssignNoSelfTest(m, this, o, same) ==
    LET m1 == Destructor(m, this)
        al == allocDims(m1, o._height, o._width)
        t  == [this EXCEPT !._height = o._height, !._width = o._width, !._data = al.ptr]
    IN [mem |-> AssignLoop(al.mem, t, o, 0, o._height * o._width), obj |-> t]

\* Matrix &operator=(const Matrix &o); same says whether this == &o.
OperatorAssign(m, this, o, same) ==
    IF same THEN [mem |-> m, obj |-> this]
    ELSE LET m1 == Destructor(m, this)
             al == allocDims(m1, o._height, o._width)
             t  == [this EXCEPT !._height = o._height, !._width = o._width, !._data = al.ptr]
         IN [mem |-> AssignLoop(al.mem, t, o, 0, o._height * o._width), obj |-> t]

\* Variant of ShapeDiffers: the heights are not compared.
ShapeDiffersWidthOnly(this, o) == this._width # o._width

\* w() != o.w() || h() != o.h()
ShapeDiffers(this, o) == this._width # o._width \/ this._height # o._height

RECURSIVE SubLoopReversed(_, _, _, _, _)
\* Variant of SubLoop: o.get(i, j) - get(i, j).
SubLoopReversed(m, this, o, k, n) ==
    IF k >= n THEN m
    ELSE LET i == k \div this._width
             j == k % this._width
         IN SubLoopReversed(set(m, this, i, j, get(m, o, i, j) - get(m, this, i, j)),
                            this, o, k + 1, n)

RECURSIVE SubLoop(_, _, _, _, _)
\* operator-=, lines 205-207: set(i, j, get(i, j) - o.get(i, j))
SubLoop(m, this, o, k, n) ==
    IF k >= n THEN m
    ELSE LET i == k \div this._width
             j == k % this._width
         IN SubLoop(set(m, this, i, j, get(m, this, i, j) - get(m, o, i, j)), this, o, k + 1, n)

RECURSIVE MulLoop(_, _, _, _, _)
\* operator*=, lines 214-216: set(i, j, get(i, j) * o.get(i, j))
MulLoop(m, this, o, k, n) ==
    IF k >= n THEN m
    ELSE LET i == k \div this._width
             j == k % this._width
         IN MulLoop(set(m, this, i, j, get(m, this, i, j) * get(m, o, i, j)), this, o, k + 1, n)

\* return *this; of a function returning Matrix<val_t>: the caller receives a copy,
\* which dies at the end of the full expression.
ReturnCopy(m, g, this) ==
    LET c == CopyCtor(m, g, this)
    IN [mem |-> Destructor(c.mem, c.obj), rng |-> c.rng,
        ret |-> [kind |-> "matrix", v |-> Val(c.mem, c.obj)]]

\* Matrix<val_t> operator-=(const Matrix<val_t> &o)
OperatorSub(m, g, this, o) ==
    IF ShapeDiffers(this, o)
    THEN [mem |-> m, rng |-> g, obj |-> this, ret |-> NoRet, err |-> TRUE]
    ELSE LET r == ReturnCopy(SubLoop(m, this, o, 0, this._height * this._width), g, this)
         IN [mem |-> r.mem, rng |-> r.rng, obj |-> this, ret |-> r.ret, err |-> FALSE]

\* Variant of OperatorMul: on a shape mismatch the left operand takes the right
\* operand's shape instead of throwing.
OperatorMulReshaping(m, g, this, o) ==
    IF ShapeDiffers(this, o)
    THEN [mem |-> m, rng |-> g,
          obj |-> [this EXCEPT !._height = o._height, !._width = o._width],
          ret |-> NoRet, err |-> FALSE]
    ELSE LET r == ReturnCopy(MulLoop(m, this, o, 0, this._height * this._width), g, this)
         IN [mem |-> r.mem, rng |-> r.rng, obj |-> this, ret |-> r.ret, err |-> FALSE]

\* Matrix<val_t> operator*=(const Matrix<val_t> &o)
OperatorMul(m, g, this, o) ==
    IF ShapeDiffers(this, o)
    THEN [mem |-> m, rng |-> g, obj |-> this, ret |-> NoRet, err |-> TRUE]
    ELSE LET r == ReturnCopy(MulLoop(m, this, o, 0, this._height * this._width), g, this)
         IN [mem |-> r.mem, rng |-> r.rng, obj |-> this, ret |-> r.ret, err |-> FALSE]

RECURSIVE TransposeLoopNoSwap(_, _, _, _, _)
\* Variant of TransposeLoop: ret.set(h, w, ...) instead of ret.set(w, h, ...).
TransposeLoopNoSwap(m, r, src, k, n) ==
    IF k >= n THEN m
    ELSE LET h == k \div src._width
             w == k % src._width
         IN TransposeLoopNoSwap(set(m, r, h, w, get(m, src, h, w)), r, src, k + 1, n)

RECURSIVE TransposeLoop(_, _, _, _, _)
\* transpose, lines 39-41: ret.set(w, h, src.get(h, w))
TransposeLoop(m, r, src, k, n) ==
    IF k >= n THEN m
    ELSE LET h == k \div src._width
             w == k % src._width
         IN TransposeLoop(set(m, r, w, h, get(m, src, h, w)), r, src, k + 1, n)

\* static Matrix transpose(const Matrix &src), up to return ret: the object ret.
TransposeObj(m, g, src) ==
    LET r == ShapeCtor(m, g, src._width, src._height, 0)
    IN [mem |-> TransposeLoop(r.mem, r.obj, src, 0, src._height * src._width),
        rng |-> r.rng, obj |-> r.obj]

\* Matrix::transpose(src); as a full expression: the caller reads the result,
\* which dies at the end of the expression.
StaticTranspose(m, g, src) ==
    LET t == TransposeObj(m, g, src)
    IN [mem |-> Destructor(t.mem, t.obj), rng |-> t.rng,
        ret |-> [kind |-> "matrix", v |-> Val(t.mem, t.obj)], err |-> FALSE]

RECURSIVE DotSumSwapped(_, _, _, _, _, _, _)
\* Variant of DotSum: rhs is read at (c, i) instead of (i, c).
DotSumSwapped(m, lhs, rhs, r, c, i, sum) ==
    IF i >= lhs._width THEN sum
    ELSE DotSumSwapped(m, lhs, rhs, r, c, i + 1, sum + get(m, lhs, r, i) * get(m, rhs, c, i))

RECURSIVE DotSum(_, _, _, _, _, _, _)
\* dot, lines 59-61: sum = 0; for (i ...) sum += lhs.get(r, i) * rhs.get(i, c);
DotSum(m, lhs, rhs, r, c, i, sum) ==
    IF i >= lhs._width THEN sum
    ELSE DotSum(m, lhs, rhs, r, c, i + 1, sum + get(m, lhs, r, i) * get(m, rhs, i, c))

RECURSIVE DotLoop(_, _, _, _, _, _)
\* dot, lines 56-63: ret.set(r, c, sum)
DotLoop(m, p, lhs, rhs, k, n) ==
    IF k >= n THEN m
    ELSE LET r == k \div rhs._width
             c == k % rhs._width
         IN DotLoop(set(m, p, r, c, DotSum(m, lhs, rhs, r, c, 0, 0)), p, lhs, rhs, k + 1, n)

\* static Matrix dot(const Matrix &lhs, const Matrix &rhs)
StaticDot(m, g, lhs, rhs) ==
    IF lhs._width # rhs._height THEN [mem |-> m, rng |-> g, ret |-> NoRet, err |-> TRUE]
    ELSE LET p  == ShapeCtor(m, g, lhs._height, rhs._width, 0)
             m1 == DotLoop(p.mem, p.obj, lhs, rhs, 0, lhs._height * rhs._width)
         IN [mem |-> Destructor(m1, p.obj), rng |-> p.rng,
             ret |-> [kind |-> "matrix", v |-> Val(m1, p.obj)], err |-> FALSE]

(* ------------------------------ inputs --------------------------------- *)

\* The 2D sequences handed to Matrix(const std::vector<std::vector<val_t>> &).
Inputs ==
    { <<>>,
      << <<>> >>,
      << <<1, 2>>, <<3, 4>> >>,
      << <<1, 1>>, <<1, 1>> >>,
      << <<1, 2, 3>>, <<4, 5, 6>> >>,
      << <<7, 8>>, <<9, 10>>, <<11, 12>> >>,
      << <<1, 2>>, <<3>> >>,
      << <<>>, <<1>> >> }

Vals == 0..MaxVal

(* ------------------------------ actions -------------------------------- *)

Init ==
    /\ mats = [s \in Slots |-> Dead]
    /\ mem = [blocks |-> <<>>, badFree |-> FALSE]
    /\ rng = Srand(1)
    /\ last = [op |-> "init", a |-> "A", b |-> "A", err |-> FALSE, arg |-> <<>>]
    /\ ret = NoRet
    /\ made = [s \in Slots |-> NotMade]
    /\ aborted = FALSE
    /\ steps = 0

Running == ~aborted /\ steps < MaxSteps

\* The objects are named in the order they are created: B is declared while A
\* lives (the other order is this one with the two names exchanged).
Fresh(a) == ~mats[a].alive /\ (a = "B" => mats["A"].alive)

NoArg == <<>>

\* The call just made: the function, its object operands, whether it threw, and
\* the 2D sequence it was handed (from_rows).
Called(op, a, b, err, arg) ==
    /\ last' = [op |-> op, a |-> a, b |-> b, err |-> err, arg |-> arg]
    /\ steps' = steps + 1

\* The run is stopped inside the call: nothing after it executes.
Abort(op, a, b, arg) ==
    /\ aborted' = TRUE
    /\ Called(op, a, b, FALSE, arg)
    /\ UNCHANGED <<mats, mem, rng, ret, made>>

\* Matrix a;
NewEmpty(a) ==
    /\ Running /\ Fresh(a)
    /\ \E r \in {DefaultCtor(mem, rng)} :
          /\ mem' = r.mem
          /\ rng' = r.rng
          /\ mats' = [mats EXCEPT ![a] = r.obj]
    /\ Called("new_empty", a, a, FALSE, NoArg)
    /\ ret' = NoRet
    /\ made' = [made EXCEPT ![a] = Origin("empty", 0, 0, 0, a)]
    /\ UNCHANGED aborted

\* Matrix a(height, width, random);
NewShape(a, height, width, random) ==
    /\ Running /\ Fresh(a)
    /\ \E r \in {ShapeCtor(mem, rng, height, width, random)} :
          /\ mem' = r.mem
          /\ rng' = r.rng
          /\ mats' = [mats EXCEPT ![a] = r.obj]
    /\ Called("new_shape", a, a, FALSE, NoArg)
    /\ ret' = NoRet
    /\ made' = [made EXCEPT ![a] = Origin("shape", height, width, random, a)]
    /\ UNCHANGED aborted

\* Matrix a(src);  for a 2D sequence src
FromRows(a, src) ==
    /\ Running /\ Fresh(a)
    /\ \/ NoRowZero(src) /\ Abort("from_rows", a, a, src)
       \/ \E width \in FirstRowSizes(src) :
            \E r \in {RowsCtor(mem, rng, src, width)} :
               /\ mem' = r.mem
               /\ rng' = r.rng
               /\ mats' = [mats EXCEPT ![a] = r.obj]
               /\ Called("from_rows", a, a, r.err, src)
               /\ ret' = NoRet
               /\ made' = [made EXCEPT ![a] =
                             IF r.err THEN NotMade ELSE Origin("rows", Len(src), width, 0, a)]
               /\ UNCHANGED aborted

\* Matrix a(b);
Copy(a, b) ==
    /\ Running /\ Fresh(a) /\ mats[b].alive
    /\ \E r \in {CopyCtor(mem, rng, mats[b])} :
          /\ mem' = r.mem
          /\ rng' = r.rng
          /\ mats' = [mats EXCEPT ![a] = r.obj]
    /\ Called("copy", a, b, FALSE, NoArg)
    /\ ret' = NoRet
    /\ made' = [made EXCEPT ![a] = Origin("copy", mats[b]._height, mats[b]._width, 0, b)]
    /\ UNCHANGED aborted

\* the end of a's lifetime
Destroy(a) ==
    /\ Running /\ mats[a].alive
    /\ \E out \in DeleteOutcomes(mem, mats[a]) :
         IF out = "abort"
         THEN Abort("destroy", a, a, NoArg)
         ELSE /\ mem' = Destructor(mem, mats[a])
              /\ mats' = [mats EXCEPT ![a] = Dead]
              /\ Called("destroy", a, a, FALSE, NoArg)
              /\ ret' = NoRet
              /\ made' = [made EXCEPT ![a] = NotMade]
              /\ UNCHANGED <<rng, aborted>>

\* a = b;
Assign(a, b) ==
    /\ Running /\ mats[a].alive /\ mats[b].alive
    /\ \E out \in (IF a = b THEN {"released"} ELSE DeleteOutcomes(mem, mats[a])) :
         IF out = "abort"
         THEN Abort("assign", a, b, NoArg)
         ELSE \E r \in {OperatorAssign(mem, mats[a], mats[b], a = b)} :
                 /\ mem' = r.mem
                 /\ mats' = [mats EXCEPT ![a] = r.obj]
                 /\ Called("assign", a, b, FALSE, NoArg)
                 /\ ret' = NoRet
                 /\ made' = [made EXCEPT ![a].assigned = TRUE]
                 /\ UNCHANGED <<rng, aborted>>

\* a.get(y, x);  within the shape
Get(a, y, x) ==
    /\ Running /\ mats[a].alive
    /\ y < mats[a]._height /\ x < mats[a]._width
    /\ ret' = [kind |-> "value", v |-> get(mem, mats[a], y, x)]
    /\ Called("get", a, a, FALSE, NoArg)
    /\ UNCHANGED <<mats, mem, rng, made, aborted>>

\* a.set(y, x, dat);  within the shape
Set(a, y, x, dat) ==
    /\ Running /\ mats[a].alive
    /\ y < mats[a]._height /\ x < mats[a]._width
    /\ mem' = set(mem, mats[a], y, x, dat)
    /\ Called("set", a, a, FALSE, NoArg)
    /\ ret' = NoRet
    /\ made' = [made EXCEPT ![a].written = TRUE]
    /\ UNCHANGED <<mats, rng, aborted>>

\* a -= b;
SubAssign(a, b) ==
    /\ Running /\ mats[a].alive /\ mats[b].alive
    /\ \E r \in {OperatorSub(mem, rng, mats[a], mats[b])} :
          /\ mem' = r.mem
          /\ rng' = r.rng
          /\ mats' = [mats EXCEPT ![a] = r.obj]
          /\ ret' = r.ret
          /\ Called("sub_assign", a, b, r.err, NoArg)
          /\ made' = IF r.err THEN made ELSE [made EXCEPT ![a].written = TRUE]
    /\ UNCHANGED aborted

\* a *= b;
MulAssign(a, b) ==
    /\ Running /\ mats[a].alive /\ mats[b].alive
    /\ \E r \in {OperatorMul(mem, rng, mats[a], mats[b])} :
          /\ mem' = r.mem
          /\ rng' = r.rng
          /\ mats' = [mats EXCEPT ![a] = r.obj]
          /\ ret' = r.ret
          /\ Called("mul_assign", a, b, r.err, NoArg)
          /\ made' = IF r.err THEN made ELSE [made EXCEPT ![a].written = TRUE]
    /\ UNCHANGED aborted

\* Matrix::transpose(a);
Transpose(a) ==
    /\ Running /\ mats[a].alive
    /\ \E r \in {StaticTranspose(mem, rng, mats[a])} :
          /\ mem' = r.mem
          /\ rng' = r.rng
          /\ ret' = r.ret
    /\ Called("transpose", a, a, FALSE, NoArg)
    /\ UNCHANGED <<mats, made, aborted>>

\* Matrix::dot(a, b);
Dot(a, b) ==
    /\ Running /\ mats[a].alive /\ mats[b].alive
    /\ \E r \in {StaticDot(mem, rng, mats[a], mats[b])} :
          /\ mem' = r.mem
          /\ rng' = r.rng
          /\ ret' = r.ret
          /\ Called("dot", a, b, r.err, NoArg)
    /\ UNCHANGED <<mats, made, aborted>>

Next ==
    \/ \E a \in Slots : NewEmpty(a)
    \/ \E a \in Slots, h \in 0..MaxDim, w \in 0..MaxDim, s \in 0..MaxSeed : NewShape(a, h, w, s)
    \/ \E a \in Slots, src \in Inputs : FromRows(a, src)
    \/ \E a \in Slots, b \in Slots : Copy(a, b)
    \/ \E a \in Slots : Destroy(a)
    \/ \E a \in Slots, b \in Slots : Assign(a, b)
    \/ \E a \in Slots, y \in 0..MaxDim, x \in 0..MaxDim : Get(a, y, x)
    \/ \E a \in Slots, y \in 0..MaxDim, x \in 0..MaxDim, dat \in Vals : Set(a, y, x, dat)
    \/ \E a \in Slots, b \in Slots : SubAssign(a, b)
    \/ \E a \in Slots, b \in Slots : MulAssign(a, b)
    \/ \E a \in Slots : Transpose(a)
    \/ \E a \in Slots, b \in Slots : Dot(a, b)

Spec == Init /\ [][Next]_vars

(* ------------------------ reference definitions ------------------------ *)

Alive(s) == mats[s].alive

\* The matrix object s denotes in the current state.
V(s) == Val(mem, mats[s])

\* The matrix object s denotes after the step.
VAfter(s) == Val(mem', mats'[s])

Mat(rows, h, w) == [h |-> h, w |-> w, d |-> rows]

Returned(v) == [kind |-> "matrix", v |-> v]

RECURSIVE SumTo(_, _, _, _, _)
\* L[r, 1] * R[1, c] + ... + L[r, k] * R[k, c]
SumTo(L, R, r, c, k) ==
    IF k = 0 THEN 0 ELSE SumTo(L, R, r, c, k - 1) + L.d[r][k] * R.d[k][c]

MatProduct(L, R) ==
    Mat([r \in 1..L.h |-> [c \in 1..R.w |-> SumTo(L, R, r, c, L.w)]], L.h, R.w)

MatTranspose(S) == Mat([c \in 1..S.w |-> [r \in 1..S.h |-> S.d[r][c]]], S.w, S.h)

MatMinus(A, B) == Mat([r \in 1..A.h |-> [c \in 1..A.w |-> A.d[r][c] - B.d[r][c]]], A.h, A.w)

MatTimes(A, B) == Mat([r \in 1..A.h |-> [c \in 1..A.w |-> A.d[r][c] * B.d[r][c]]], A.h, A.w)

SameShape(A, B) == A.h = B.h /\ A.w = B.w

\* No object and no block of storage differs between this state and the next.
NothingTouched == mats' = mats /\ mem' = mem

(* ------------------------------- claims -------------------------------- *)

\* C1: for L.W = R.H, dot(L, R) returns P with P.H = L.H, P.W = R.W and
\* P[r, c] = sum over k of L[r, k] * R[k, c], accumulated from zero (all zeros
\* when L.W = 0); L and R are unmodified.
C1_DotIsTheProduct ==
    [][ last'.op = "dot" =>
          LET L == V(last'.a)
              R == V(last'.b)
          IN /\ L.w = R.h => ~last'.err /\ ret' = Returned(MatProduct(L, R))
             /\ \A s \in Slots : mats'[s] = mats[s] /\ VAfter(s) = V(s) ]_vars

C1_Witness ==
    /\ last.op = "dot" /\ ~last.err
    /\ V(last.a) = Mat(<< <<1, 2, 3>>, <<4, 5, 6>> >>, 2, 3)
    /\ V(last.b) = Mat(<< <<7, 8>>, <<9, 10>>, <<11, 12>> >>, 3, 2)
    /\ ret = Returned(Mat(<< <<58, 64>>, <<139, 154>> >>, 2, 2))

\* C2: -= and *= fail with ShapeError whenever the operands differ in height or
\* width, dot fails whenever L.W differs from R.H; a failing call changes no
\* element and no dimension of either operand.
C2_ShapeErrorsChangeNothing ==
    [][ /\ last'.op \in {"sub_assign", "mul_assign"} /\ ~SameShape(V(last'.a), V(last'.b))
            => last'.err
        /\ last'.op = "dot" /\ V(last'.a).w # V(last'.b).h
            => last'.err
        /\ last'.op \in {"sub_assign", "mul_assign", "dot"} /\ last'.err
            => NothingTouched /\ \A s \in Slots : VAfter(s) = V(s) ]_vars

C2_Witness ==
    /\ last.op = "mul_assign" /\ last.err
    /\ V("A") = Mat(<< <<1, 2>>, <<3, 4>> >>, 2, 2)
    /\ V("B") = Mat(<< <<1, 2, 3>>, <<4, 5, 6>> >>, 2, 3)

\* C4: for op in {-, *} and same-shape A and B, after A op= B every A[r, c] is
\* (old A[r, c]) op (old B[r, c]), also when B is A itself; a distinct B is
\* unmodified, and the value returned equals the updated A.
C4_CompoundAssignIsElementwise ==
    [][ last'.op \in {"sub_assign", "mul_assign"} /\ SameShape(V(last'.a), V(last'.b)) =>
          LET A == V(last'.a)
              B == V(last'.b)
              R == IF last'.op = "sub_assign" THEN MatMinus(A, B) ELSE MatTimes(A, B)
          IN /\ ~last'.err
             /\ VAfter(last'.a) = R
             /\ ret' = Returned(R)
             /\ mats' = mats
             /\ last'.b # last'.a => VAfter(last'.b) = B ]_vars

C4_Witness ==
    /\ last.op = "sub_assign" /\ ~last.err /\ last.a = "A" /\ last.b = "B"
    /\ V("A") = Mat(<< <<0, 1>>, <<2, 3>> >>, 2, 2)
    /\ V("B") = Mat(<< <<1, 1>>, <<1, 1>> >>, 2, 2)
    /\ ret = Returned(V("A"))

\* C5: transpose(S) returns T with T.H = S.W, T.W = S.H and T[c, r] = S[r, c]
\* (also for H = 0 or W = 0), leaves S unmodified, and transposing the result
\* again gives S back in shape and elements.
C5_TransposeAndBack ==
    [][ last'.op = "transpose" =>
          /\ ret' = Returned(MatTranspose(V(last'.a)))
          /\ \E t1 \in {TransposeObj(mem, rng, mats[last'.a])} :
               \E t2 \in {TransposeObj(t1.mem, t1.rng, t1.obj)} :
                  Val(t2.mem, t2.obj) = V(last'.a)
          /\ \A s \in Slots : mats'[s] = mats[s] /\ VAfter(s) = V(s) ]_vars

C5_Witness ==
    /\ last.op = "transpose"
    /\ V(last.a) = Mat(<< <<1, 2, 3>>, <<4, 5, 6>> >>, 2, 3)
    /\ ret = Returned(Mat(<< <<1, 4>>, <<2, 5>>, <<3, 6>> >>, 3, 2))

\* The blocks object o holds: the row-pointer block and the blocks it points to.
Storage(m, o) ==
    IF ~o.alive \/ o._data \notin DOMAIN m.blocks THEN {}
    ELSE {o._data} \cup {Cell(m, o._data, i - 1) : i \in 1..Len(m.blocks[o._data].cells)}

Rectangular(S) == \A i \in 1..Len(S) : Len(S[i]) = Len(S[1])

\* C3: from_rows(S) yields the matrix with H = |S|, W = |S[0]| and M[i, j] =
\* S[i][j] when every row of S has length W, fails with ShapeError when some
\* row has another length, and has no other outcome for any S, a sequence
\* without rows included.
C3_FromRowsOutcomes ==
    last.op = "from_rows" =>
        /\ ~aborted
        /\ IF Rectangular(last.arg)
           THEN /\ ~last.err /\ Alive(last.a)
                /\ V(last.a).h = Len(last.arg)
                /\ Len(last.arg) > 0 =>
                     V(last.a).w = Len(last.arg[1]) /\ V(last.a).d = last.arg
           ELSE last.err /\ ~Alive(last.a)

\* C6: after B is created as a copy of A, or assigned from A, B has A's shape
\* and elements, and no set, -=, *=, assignment or destruction applied to one
\* object changes an element or a dimension of the other: the two hold no
\* block of storage in common.
C6_CopiesAreIndependent ==
    [][ /\ last'.op \in {"copy", "assign"} /\ ~aborted'
            => VAfter(last'.a) = V(last'.b) /\ VAfter(last'.b) = V(last'.b)
        /\ last'.op \in {"set", "sub_assign", "mul_assign", "assign", "destroy"}
            => \A s \in Slots \ {last'.a} : mats'[s] = mats[s] /\ VAfter(s) = V(s)
        /\ Storage(mem', mats'["A"]) \cap Storage(mem', mats'["B"]) = {} ]_vars

C6_Witness ==
    /\ Alive("A") /\ Alive("B")
    /\ made["B"].how = "copy" /\ made["B"].src = "A" /\ made["B"].written
    /\ last.op = "set" /\ last.a = "B"
    /\ V("A") = Mat(<< <<1, 2>>, <<3, 4>> >>, 2, 2)
    /\ V("B") # V("A")

\* C7: after A := B, A has exactly the shape and the elements B had before, and
\* B is unchanged, also when the shapes differ and when B is A itself; the
\* self-assignment changes nothing and releases none of A's storage.
C7_AssignTakesTheValue ==
    [][ last'.op = "assign" /\ ~aborted' =>
          /\ VAfter(last'.a) = V(last'.b)
          /\ VAfter(last'.b) = V(last'.b)
          /\ last'.a # last'.b => mats'[last'.b] = mats[last'.b]
          /\ last'.a = last'.b => NothingTouched ]_vars

C7_Witness ==
    /\ last.op = "assign" /\ last.a = "A" /\ last.b = "B" /\ ~aborted
    /\ made["A"].how = "rows" /\ made["A"].h = 3 /\ made["A"].w = 2 /\ made["A"].assigned
    /\ V("A") = Mat(<< <<1, 2, 3>>, <<4, 5, 6>> >>, 2, 3)
    /\ V("B") = V("A")

\* C8: whatever get, set, -= and *= calls are applied to a matrix, as left or
\* right operand, successful or failing, height() and width() return what they
\* returned at construction; only an assignment to the matrix changes them.
C8_ShapeFixedUnlessAssigned ==
    \A s \in Slots :
        Alive(s) /\ ~made[s].assigned =>
            mats[s]._height = made[s].h /\ mats[s]._width = made[s].w

C8_Witness ==
    /\ last.op = "mul_assign" /\ ~last.err /\ last.a = "A" /\ last.b = "A"
    /\ made["A"].how = "rows" /\ made["A"].written /\ ~made["A"].assigned
    /\ V("A") = Mat(<< <<0, 4, 9>>, <<16, 25, 36>> >>, 2, 3)

\* C9: every block of storage a matrix acquires is released exactly once by the
\* time the matrix is gone: no block stays allocated without an owner, and none
\* is released twice.
C9_EveryBlockOwnedAndReleasedOnce ==
    /\ ~mem.badFree
    /\ DOMAIN mem.blocks \subseteq (Storage(mem, mats["A"]) \cup Storage(mem, mats["B"]))

\* An object as Matrix(height, width, random) made it, not changed since.
Pristine(s) ==
    Alive(s) /\ made[s].how = "shape" /\ ~made[s].written /\ ~made[s].assigned

\* C10: two matrices constructed with the same H, W and seed s # 0 are equal
\* element by element, whatever ran before or between the two constructions and
\* advanced the process-wide generator; with seed 0 every element is zero.
C10_SeededFillRepeats ==
    /\ \A a \in Slots, b \in Slots :
          /\ Pristine(a) /\ Pristine(b)
          /\ made[a].h = made[b].h /\ made[a].w = made[b].w /\ made[a].seed = made[b].seed
          => V(a) = V(b)
    /\ \A a \in Slots :
          Pristine(a) /\ made[a].seed = 0 =>
             \A i \in 1..V(a).h, j \in 1..V(a).w : V(a).d[i][j] = 0

C10_Witness ==
    /\ Pristine("A") /\ Pristine("B")
    /\ made["A"].seed = 2 /\ made["B"].seed = 2
    /\ made["A"].h = 1 /\ made["A"].w = 1 /\ made["B"].h = 1 /\ made["B"].w = 1
    /\ V("A") = Mat(<< <<1>> >>, 1, 1)
    /\ V("B") = V("A")

====
